---- MODULE Spec2Model ----
(***************************************************************************)
(* A model of tls-async: the adapter that drives a synchronous TLS engine  *)
(* (native_tls) over an asynchronous transport.                            *)
(*                                                                         *)
(* Two generations of the handshake driver live in the sources:            *)
(*   - src/src/lib.rs: the `handshake` async fn (StartedHandshakeFuture    *)
(*     followed by MidHandshake) over the AllowStd bridge, and TlsStream;  *)
(*   - src/src/pending.rs with connector.rs / acceptor.rs: PendingTlsStream*)
(*     over futures' Compat adapter.                                       *)
(* The engine and the transport are outside the repository: they are the   *)
(* environment, and every answer they may give is drawn with \E.           *)
(***************************************************************************)
EXTENDS Integers, Sequences, FiniteSets, TLC

\* ------------------------------------------------------------ bounds
NCtx == 2           \* distinct task contexts a caller may poll with
HsSteps == 2        \* transport exchanges the engine's handshake needs
MaxPolls == 4       \* polls issued on one instance
MaxWouldBlock == 3  \* would-block answers one transport may still give
MaxLen == 2         \* bytes in the payload sent over the loopback pair
RecMax == 1         \* payload bytes the engine seals into one record
PairPolls == 2      \* polls issued on each of two interleaved instances

\* Driver / stream instances built from one connector
Inst == {1, 2}
\* The instance a single caller drives
Solo == {1}
Ctx == 1..NCtx

\* std::ptr::null_mut(): the cleared context reference
Null == 0
\* Stands in the place of a context for a transport wrapped by
\* stream.compat(), which keeps no context reference of this crate
CompatBridge == -1

\* ------------------------------------------------------------ values
\* io::Result<T>: Ok(n) or Err(e); a panic unwinds instead of returning
IoOk(n) == [res |-> "Ok", n |-> n, err |-> "none"]
IoErr(e) == [res |-> "Err", n |-> 0, err |-> e]
IoPanic == [res |-> "Panic", n |-> 0, err |-> "assert"]

\* Poll<io::Result<T>>
Ready(r) == [poll |-> "Ready", r |-> r]
Pending == [poll |-> "Pending", r |-> [res |-> "none", n |-> 0, err |-> "none"]]
Unwind == [poll |-> "Panic", r |-> IoPanic]

\* io::ErrorKind values a transport may report inside Ready(Err(e))
IoErrKinds == {"ConnectionReset", "BrokenPipe"}

\* What one poll_read / poll_write / poll_flush of the transport S may
\* answer: not ready, ready with a byte count, ready with an error (a
\* transport may even put kind WouldBlock inside Ready(Err(e))).
TransportOutcomes ==
    {Pending, Ready(IoOk(1))}
        \cup {Ready(IoErr(e)) : e \in IoErrKinds \cup {"WouldBlock"}}

\* The transport's answers to the successive exchanges of one handshake.
\* An engine call stops at the first answer that is not Ok, so the answers
\* after it are never asked for: they are fixed to Ok.
Scripts ==
    {s \in [1..HsSteps -> TransportOutcomes] :
        \A j, k \in 1..HsSteps :
            (j < k /\ s[j] # Ready(IoOk(1))) => s[k] = Ready(IoOk(1))}

\* ------------------------------------------------------------ the bridge
\* AllowStd::with_context: assert the context is attached, then run the
\* closure, whose value is the transport's answer t under that context.
AllowStdWithContext(context, t) ==
    IF context = Null THEN Unwind ELSE t

\* A bridge read that reports every transport error as a generic one
AllowStdReadGenericError(context, t) ==
    LET p == AllowStdWithContext(context, t)
    IN  CASE p.poll = "Ready" /\ p.r.res = "Err" -> IoErr("Other")
          [] p.poll = "Ready" -> p.r
          [] p.poll = "Pending" -> IoErr("WouldBlock")
          [] OTHER -> IoPanic

\* A bridge read that tells a transport's Ready(Err(WouldBlock)) from its
\* own would-block by reporting it as another kind of error
AllowStdReadHidesWouldBlock(context, t) ==
    LET p == AllowStdWithContext(context, t)
    IN  CASE p.poll = "Ready" /\ p.r.res = "Err" /\ p.r.err = "WouldBlock" ->
                IoErr("Other")
          [] p.poll = "Ready" -> p.r
          [] p.poll = "Pending" -> IoErr("WouldBlock")
          [] OTHER -> IoPanic

\* impl Read for AllowStd
AllowStdRead(context, t) ==
    LET p == AllowStdWithContext(context, t)
    IN  CASE p.poll = "Ready" -> p.r
          [] p.poll = "Pending" -> IoErr("WouldBlock")
          [] OTHER -> IoPanic

\* A bridge write that reports a transport that is not ready as one byte
\* written
AllowStdWriteSwallows(context, t) ==
    LET p == AllowStdWithContext(context, t)
    IN  CASE p.poll = "Ready" -> p.r
          [] p.poll = "Pending" -> IoOk(1)
          [] OTHER -> IoPanic

\* A bridge write that reports a completed transfer as would-block
AllowStdWriteLosesReady(context, t) ==
    LET p == AllowStdWithContext(context, t)
    IN  CASE p.poll = "Ready" /\ p.r.res = "Ok" -> IoErr("WouldBlock")
          [] p.poll = "Ready" -> p.r
          [] p.poll = "Pending" -> IoErr("WouldBlock")
          [] OTHER -> IoPanic

\* impl Write for AllowStd: write
AllowStdWrite(context, t) ==
    LET p == AllowStdWithContext(context, t)
    IN  CASE p.poll = "Ready" -> p.r
          [] p.poll = "Pending" -> IoErr("WouldBlock")
          [] OTHER -> IoPanic

\* A bridge flush that reports a transport that is not ready as flushed
AllowStdFlushSwallows(context, t) ==
    LET p == AllowStdWithContext(context, t)
    IN  CASE p.poll = "Ready" -> p.r
          [] p.poll = "Pending" -> IoOk(0)
          [] OTHER -> IoPanic

\* A bridge flush that reports every transport error as a generic one
AllowStdFlushGenericError(context, t) ==
    LET p == AllowStdWithContext(context, t)
    IN  CASE p.poll = "Ready" /\ p.r.res = "Err" -> IoErr("Other")
          [] p.poll = "Ready" -> p.r
          [] p.poll = "Pending" -> IoErr("WouldBlock")
          [] OTHER -> IoPanic

\* impl Write for AllowStd: flush
AllowStdFlush(context, t) ==
    LET p == AllowStdWithContext(context, t)
    IN  CASE p.poll = "Ready" -> p.r
          [] p.poll = "Pending" -> IoErr("WouldBlock")
          [] OTHER -> IoPanic

\* stream.compat(): futures' adapter, which turns a transport that is not
\* ready into an error of kind WouldBlock
CompatIo(t) ==
    CASE t.poll = "Ready" -> t.r
      [] OTHER -> IoErr("WouldBlock")

\* A cvt without the would-block arm
cvtKeepsWouldBlock(r) ==
    CASE r.res = "Ok" -> Ready(r)
      [] r.res = "Err" -> Ready(r)
      [] OTHER -> Unwind

\* A cvt that turns would-block into a write of no bytes
cvtReadyOnWouldBlock(r) ==
    CASE r.res = "Ok" -> Ready(r)
      [] r.res = "Err" /\ r.err = "WouldBlock" -> Ready(IoOk(0))
      [] r.res = "Err" -> Ready(r)
      [] OTHER -> Unwind

\* fn cvt
cvt(r) ==
    CASE r.res = "Ok" -> Ready(r)
      [] r.res = "Err" /\ r.err = "WouldBlock" -> Pending
      [] r.res = "Err" -> Ready(r)
      [] OTHER -> Unwind

\* ------------------------------------------------------------ the engine
\* What one synchronous handshake call of the engine returns: res is Ok,
\* WouldBlock (with the continuation at progress p), Failure (with err) or
\* Panic.  io counts the bridge calls the engine made, wb the would-block
\* answers it got, notReady whether the transport itself said Pending.
HsAnswer(res, err, p, io, wb, notReady) ==
    [res |-> res, err |-> err, progress |-> p, io |-> io, wb |-> wb,
     notReady |-> notReady]

\* What the engine makes of the peer: "ok", or the diagnostic of its error
Verdicts == {"ok", "CertificateInvalid"}

\* The engine's verdict once every exchange is done; certOk is what it
\* makes of the peer
EngineVerdict(p, certOk) ==
    IF certOk = "ok" THEN HsAnswer("Ok", "none", p, 0, 0, FALSE)
                     ELSE HsAnswer("Failure", certOk, p, 0, 0, FALSE)

AddIo(e) == [e EXCEPT !.io = @ + 1]

\* One synchronous handshake call of the engine, entered with p exchanges
\* already done (connect / accept: p = 0; MidHandshakeTlsStream::handshake:
\* the continuation's p).  The engine writes and reads through the bridge
\* until an exchange would block or fails, or all of them are done.
\* Over the AllowStd bridge (lib.rs) the engine's writes and reads go through
\* AllowStd; over futures' Compat adapter (connector.rs, acceptor.rs) no
\* context of this crate is involved: context is CompatBridge.
RECURSIVE EngineHandshake(_, _, _, _)
RECURSIVE EngineExchange(_, _, _, _, _)
\* r: the bridge's answer to exchange p + 1
EngineExchange(p, context, script, certOk, r) ==
    CASE r.res = "Ok" -> AddIo(EngineHandshake(p + 1, context, script, certOk))
      [] r.res = "Err" /\ r.err = "WouldBlock" ->
            HsAnswer("WouldBlock", "none", p, 1, 1, script[p + 1].poll = "Pending")
      [] r.res = "Err" -> HsAnswer("Failure", r.err, p, 1, 0, FALSE)
      [] OTHER -> HsAnswer("Panic", "assert", p, 1, 0, FALSE)

EngineHandshake(p, context, script, certOk) ==
    IF p >= HsSteps
    THEN EngineVerdict(p, certOk)
    ELSE EngineExchange(p, context, script, certOk,
                        CASE context = CompatBridge -> CompatIo(script[p + 1])
                          [] p % 2 = 0 -> AllowStdWrite(context, script[p + 1])
                          [] OTHER -> AllowStdRead(context, script[p + 1]))

\* One engine handshake call as the driver made it: the initial call or
\* the retry of the continuation at progress p, with the answer e it got
\* (res, and q: the progress of the continuation a would-block returned)
Entry(call, p, e) == [call |-> call, p |-> p, res |-> e.res, q |-> e.progress]

\* ------------------------------------------------------------ lib.rs driver
\* Option<MidHandshakeTlsStream<AllowStd<S>>>: None, or Some(continuation)
NoMid == [some |-> FALSE, progress |-> 0]
SomeMid(p) == [some |-> TRUE, progress |-> p]

\* What a poll of one of the handshake futures returns (poll, val, err) and
\* leaves behind (mid: the Option slot; alive, context: the bridge), with
\* what the engine call e it made did.  engErr: the engine's own error.
DrvOut(poll, val, err, m, alive, context, ctx, e) ==
    [poll |-> poll, val |-> val, err |-> err, entries |-> <<>>,
     engErr |-> IF e.res = "Failure" THEN e.err ELSE "none",
     mid |-> m, alive |-> alive, context |-> context,
     progress |-> e.progress, hsCalls |-> 1, io |-> e.io, wb |-> e.wb,
     notReady |-> e.notReady, seen |-> IF e.io > 0 THEN {ctx} ELSE {}]

\* .expect("future polled after completion")
DrvPanic ==
    [poll |-> "Panic", val |-> "none", err |-> "polled after completion",
     entries |-> <<>>,
     engErr |-> "none", mid |-> NoMid, alive |-> FALSE, context |-> Null,
     progress |-> 0, hsCalls |-> 0, io |-> 0, wb |-> 0, notReady |-> FALSE,
     seen |-> {}]

\* A StartedHandshakeFuture::poll that reports every engine failure by one
\* fixed error instead of the engine's own
StartedMatchGenericError(ctx, e) ==
    CASE e.res = "Ok" -> DrvOut("Ready", "Done", "none", NoMid, TRUE, Null, ctx, e)
      [] e.res = "WouldBlock" ->
            DrvOut("Ready", "Mid", "none", NoMid, TRUE, Null, ctx, e)
      [] e.res = "Failure" ->
            DrvOut("Ready", "Err", "handshake failed", NoMid, FALSE, Null, ctx, e)
      [] OTHER -> DrvOut("Panic", "none", e.err, NoMid, FALSE, Null, ctx, e)

\* A StartedHandshakeFuture::poll that suspends when the initial call
\* reports would-block
StartedMatchSuspends(ctx, e) ==
    CASE e.res = "Ok" -> DrvOut("Ready", "Done", "none", NoMid, TRUE, Null, ctx, e)
      [] e.res = "WouldBlock" ->
            DrvOut("Pending", "none", "none", SomeMid(e.progress), TRUE, Null, ctx, e)
      [] e.res = "Failure" ->
            DrvOut("Ready", "Err", e.err, NoMid, FALSE, Null, ctx, e)
      [] OTHER -> DrvOut("Panic", "none", e.err, NoMid, FALSE, Null, ctx, e)

\* The match in StartedHandshakeFuture::poll on the engine's answer e
StartedMatch(ctx, e) ==
    CASE e.res = "Ok" -> DrvOut("Ready", "Done", "none", NoMid, TRUE, Null, ctx, e)
      [] e.res = "WouldBlock" ->
            DrvOut("Ready", "Mid", "none", NoMid, TRUE, Null, ctx, e)
      [] e.res = "Failure" ->
            DrvOut("Ready", "Err", e.err, NoMid, FALSE, Null, ctx, e)
      [] OTHER -> DrvOut("Panic", "none", e.err, NoMid, FALSE, Null, ctx, e)

\* StartedHandshakeFuture::poll.  some: self.0 is Some(inner).  The bridge
\* is built with context = ctx and handed to the engine's initial call.
StartedHandshakeFuturePoll(some, ctx, script, certOk) ==
    IF ~some THEN DrvPanic
    ELSE [StartedMatch(ctx, EngineHandshake(0, ctx, script, certOk))
            EXCEPT !.entries =
                <<Entry("initial", 0, EngineHandshake(0, ctx, script, certOk))>>]

\* A MidHandshake::poll whose would-block arm does not put the continuation
\* back into the slot
MidMatchDropsContinuation(cx, e) ==
    CASE e.res = "Ok" -> DrvOut("Ready", "Stream", "none", NoMid, TRUE, cx, cx, e)
      [] e.res = "Failure" ->
            DrvOut("Ready", "Err", e.err, NoMid, FALSE, Null, cx, e)
      [] e.res = "WouldBlock" ->
            DrvOut("Pending", "none", "none", NoMid, TRUE, Null, cx, e)
      [] OTHER -> DrvOut("Panic", "none", e.err, NoMid, FALSE, Null, cx, e)

\* A MidHandshake::poll that hands out a stream whatever the engine's
\* retry answered, short of would-block
MidMatchStreamOnFailure(cx, e) ==
    CASE e.res \in {"Ok", "Failure"} ->
            DrvOut("Ready", "Stream", "none", NoMid, TRUE, cx, cx, e)
      [] e.res = "WouldBlock" ->
            DrvOut("Pending", "none", "none", SomeMid(e.progress), TRUE, Null, cx, e)
      [] OTHER -> DrvOut("Panic", "none", e.err, NoMid, FALSE, Null, cx, e)

\* A MidHandshake::poll whose would-block arm stores a continuation that
\* starts the handshake over instead of the one the engine returned
MidMatchStoresFresh(cx, e) ==
    CASE e.res = "Ok" -> DrvOut("Ready", "Stream", "none", NoMid, TRUE, cx, cx, e)
      [] e.res = "Failure" ->
            DrvOut("Ready", "Err", e.err, NoMid, FALSE, Null, cx, e)
      [] e.res = "WouldBlock" ->
            DrvOut("Pending", "none", "none", SomeMid(0), TRUE, Null, cx, e)
      [] OTHER -> DrvOut("Panic", "none", e.err, NoMid, FALSE, Null, cx, e)

\* The match in MidHandshake::poll on the engine's answer e
MidMatch(cx, e) ==
    CASE e.res = "Ok" -> DrvOut("Ready", "Stream", "none", NoMid, TRUE, cx, cx, e)
      [] e.res = "Failure" ->
            DrvOut("Ready", "Err", e.err, NoMid, FALSE, Null, cx, e)
      [] e.res = "WouldBlock" ->
            DrvOut("Pending", "none", "none", SomeMid(e.progress), TRUE, Null, cx, e)
      [] OTHER -> DrvOut("Panic", "none", e.err, NoMid, FALSE, Null, cx, e)

\* A MidHandshake::poll that retries the continuation once more within the
\* same poll when the engine reports would-block
RetryInPoll(cx, script, certOk, r) ==
    IF r.poll # "Pending" THEN r
    ELSE [MidMatch(cx, EngineHandshake(r.mid.progress, cx, script, certOk))
            EXCEPT !.hsCalls = @ + r.hsCalls, !.io = @ + r.io, !.wb = @ + r.wb]
MidHandshakePollRetries(m, cx, script, certOk) ==
    IF ~m.some THEN DrvPanic
    ELSE RetryInPoll(cx, script, certOk,
                     MidMatch(cx, EngineHandshake(m.progress, cx, script, certOk)))

\* MidHandshake::poll.  m: self.0.  take() empties the slot; the stored
\* continuation's bridge gets context = cx; then one engine retry.
MidHandshakePoll(m, cx, script, certOk) ==
    IF ~m.some THEN DrvPanic
    ELSE [MidMatch(cx, EngineHandshake(m.progress, cx, script, certOk))
            EXCEPT !.entries =
                <<Entry("retry", m.progress,
                        EngineHandshake(m.progress, cx, script, certOk))>>]

\* After a poll of MidHandshake inside `handshake`: suspended at the await,
\* returned, or unwound
AfterMid(r) ==
    CASE r.poll = "Pending" -> "AwaitMid"
      [] r.poll = "Ready" -> "Returned"
      [] OTHER -> "Panicked"

\* The future's next suspension point with what the poll returns
Finish(st, r) == [st |-> st] @@ r

\* start.await has returned Mid and MidHandshake(..).await was polled in
\* the same poll: the poll did both
Join(start, r) ==
    Finish(AfterMid(r),
           [r EXCEPT !.hsCalls = @ + start.hsCalls, !.io = @ + start.io,
                     !.wb = @ + start.wb,
                     !.notReady = @ \/ start.notReady,
                     !.seen = @ \cup start.seen,
                     !.entries = start.entries \o @])

\* The match on start.await in `handshake`
AfterStart(cx, s2, certOk, start) ==
    CASE start.val = "Err" -> Finish("Returned", start)
      [] start.val = "Done" -> Finish("Returned", [start EXCEPT !.val = "Stream"])
      [] start.val = "Mid" ->
            Join(start, MidHandshakePoll(SomeMid(start.progress), cx, s2, certOk))
      [] OTHER -> Finish("Panicked", start)

\* async fn handshake, one poll.  st is the suspension point of the
\* generated future: Created (not yet polled), AwaitMid (suspended in
\* MidHandshake(..).await), Returned, Panicked.  The first poll runs
\* StartedHandshakeFuture::poll, which is always Ready, and on Mid goes on
\* to poll MidHandshake in the same poll; resuming a finished async fn
\* panics.
handshake(st, m, cx, s1, s2, certOk) ==
    CASE st = "Created" ->
            AfterStart(cx, s2, certOk, StartedHandshakeFuturePoll(TRUE, cx, s1, certOk))
      [] st = "AwaitMid" ->
            Join([hsCalls |-> 0, io |-> 0, wb |-> 0, notReady |-> FALSE,
                  seen |-> {}, entries |-> <<>>],
                 MidHandshakePoll(m, cx, s1, certOk))
      [] OTHER -> Finish("Panicked", [DrvPanic EXCEPT !.err = "resumed after completion"])

\* ------------------------------------------------------------ pending.rs driver
\* enum Handshake<S>, with errors.rs's Error inside Error(..): variant is
\* Handshake (cause: the engine's error) or RepeatedHandshake.  NoPending:
\* no PendingTlsStream was built.
NoPending == [tag |-> "None", variant |-> "none", cause |-> "none", progress |-> 0]
HsError(variant, cause) ==
    [tag |-> "Error", variant |-> variant, cause |-> cause, progress |-> 0]
HsMidhandshake(p) ==
    [tag |-> "Midhandshake", variant |-> "none", cause |-> "none", progress |-> p]
HsCompleted ==
    [tag |-> "Completed", variant |-> "none", cause |-> "none", progress |-> 0]

\* A conversion that drops the engine's error
HandshakeFromLosesCause(e) ==
    CASE e.res = "Ok" -> HsCompleted
      [] e.res = "Failure" -> HsError("Handshake", "unknown")
      [] OTHER -> HsMidhandshake(e.progress)

\* impl From<NativeHandshake<S>> for Handshake<S>
HandshakeFrom(e) ==
    CASE e.res = "Ok" -> HsCompleted
      [] e.res = "Failure" -> HsError("Handshake", e.err)
      [] OTHER -> HsMidhandshake(e.progress)

\* Handshake::was_pending
was_pending(h) == h.tag = "Midhandshake"

\* A poll that reads the slot without replacing it
MemReplaceKeeps(inner) == inner

\* A poll that leaves Completed in the slot where the code leaves
\* Error(RepeatedHandshake)
MemReplaceLeavesCompleted(inner) == HsCompleted

\* std::mem::replace(self.inner(), Handshake::Error(Error::RepeatedHandshake)):
\* what is left in the slot
MemReplace(inner) == HsError("RepeatedHandshake", "none")

\* What PendingTlsStream::poll has done so far
NoAcc ==
    [iters |-> 0, hsCalls |-> 0, io |-> 0, wb |-> 0, notReady |-> FALSE,
     engErr |-> "none", entries |-> <<>>]
AccIter(acc) == [acc EXCEPT !.iters = @ + 1]
AccCall(acc, p, e) ==
    [acc EXCEPT !.hsCalls = @ + 1, !.io = @ + e.io, !.wb = @ + e.wb,
                !.entries = Append(@, Entry("retry", p, e)),
                !.notReady = @ \/ e.notReady,
                !.engErr = IF e.res = "Failure" THEN e.err ELSE @]

\* A return statement of PendingTlsStream::poll, with the slot it leaves
PendingReturn(poll, val, variant, cause, slot, acc) ==
    [poll |-> poll, val |-> val, variant |-> variant, cause |-> cause,
     inner |-> slot] @@ acc

\* PendingTlsStream::poll: the loop.  Each iteration replaces the slot by
\* Error(RepeatedHandshake) and matches on what it held.
RECURSIVE PendingTlsStreamPoll(_, _, _, _)
RECURSIVE PendingMatch(_, _, _, _, _)
RECURSIVE PendingStore(_, _, _, _)
\* A Midhandshake arm that goes round the loop once more when the retry
\* reported would-block, and returns Pending only after a second retry
PendingStoreRetries(res, script, certOk, acc) ==
    IF was_pending(res) /\ acc.hsCalls >= 2
    THEN PendingReturn("Pending", "none", "none", "none", res, acc)
    ELSE PendingTlsStreamPoll(res, script, certOk, acc)

\* the Midhandshake arm, after the engine's retry gave res
PendingStore(res, script, certOk, acc) ==
    IF was_pending(res)
    THEN PendingReturn("Pending", "none", "none", "none", res, acc)
    ELSE PendingTlsStreamPoll(res, script, certOk, acc)

PendingMatch(taken, slot, script, certOk, acc) ==
    CASE taken.tag = "Error" ->
            PendingReturn("Ready", "Err", taken.variant, taken.cause, slot, acc)
      [] taken.tag = "Midhandshake" ->
            PendingStore(
                HandshakeFrom(EngineHandshake(taken.progress, CompatBridge, script, certOk)),
                script, certOk,
                AccCall(acc, taken.progress,
                        EngineHandshake(taken.progress, CompatBridge, script, certOk)))
      [] OTHER ->
            PendingReturn("Ready", "Stream", "none", "none", slot, acc)

PendingTlsStreamPoll(inner, script, certOk, acc) ==
    PendingMatch(inner, MemReplace(inner), script, certOk, AccIter(acc))

\* ------------------------------------------------------------ TlsStream
\* The transport method each bridge method polls: the bridge has no other
\* way into the transport.
TransportOpOf(bridgeOp) ==
    CASE bridgeOp = "read" -> "poll_read"
      [] bridgeOp = "write" -> "poll_write"
      [] OTHER -> "poll_flush"

\* A bridge whose write reports a completed transfer as would-block
BridgeCallLosesReady(bridgeOp, context, t) ==
    LET r == CASE bridgeOp = "read" -> AllowStdRead(context, t)
               [] bridgeOp = "write" -> AllowStdWriteLosesReady(context, t)
               [] OTHER -> AllowStdFlush(context, t)
    IN  [r |-> r, io |-> 1,
         tOps |-> IF r.res = "Panic" THEN <<>> ELSE <<TransportOpOf(bridgeOp)>>,
         tErr |-> IF r.res # "Panic" /\ t.poll = "Ready" /\ t.r.res = "Err"
                  THEN t.r.err ELSE "none",
         notReady |-> (r.res # "Panic" /\ t.poll = "Pending"),
         took |-> (r.res # "Panic" /\ t.poll = "Ready" /\ t.r.res = "Ok"),
         tN |-> IF r.res # "Panic" /\ t.poll = "Ready" THEN t.r.n ELSE 0,
         seen |-> {context}]

\* One bridge call made by the engine, with what it did to the transport
BridgeCall(bridgeOp, context, t) ==
    LET r == CASE bridgeOp = "read" -> AllowStdRead(context, t)
               [] bridgeOp = "write" -> AllowStdWrite(context, t)
               [] OTHER -> AllowStdFlush(context, t)
    IN  [r |-> r, io |-> 1,
         tOps |-> IF r.res = "Panic" THEN <<>> ELSE <<TransportOpOf(bridgeOp)>>,
         tErr |-> IF r.res # "Panic" /\ t.poll = "Ready" /\ t.r.res = "Err"
                  THEN t.r.err ELSE "none",
         notReady |-> (r.res # "Panic" /\ t.poll = "Pending"),
         took |-> (r.res # "Panic" /\ t.poll = "Ready" /\ t.r.res = "Ok"),
         tN |-> IF r.res # "Panic" /\ t.poll = "Ready" THEN t.r.n ELSE 0,
         seen |-> {context}]

\* The engine failing by itself, without touching the transport
EngineOwnError ==
    [r |-> IoErr("Other"), io |-> 0, tOps |-> <<>>, tErr |-> "none",
     notReady |-> FALSE, took |-> FALSE, tN |-> 0, seen |-> {}]

\* The engine answering Ok without touching the transport
EngineNoIo ==
    [r |-> IoOk(0), io |-> 0, tOps |-> <<>>, tErr |-> "none",
     notReady |-> FALSE, took |-> FALSE, tN |-> 0, seen |-> {}]

\* native_tls::TlsStream::read / write / flush / shutdown as called by
\* TlsStream: one synchronous engine call.  mode "io": the engine goes to
\* the transport through the bridge and returns what the bridge returned;
\* mode "fail": the engine reports an error of its own.  shutdown hands the
\* closure notification to the bridge unless the transport already took it.
\* mode "empty": a write of no bytes, answered Ok(0) without any transfer.
EngineCall(op, context, t, mode, notified) ==
    CASE mode = "fail" -> EngineOwnError
      [] mode = "empty" -> EngineNoIo
      [] op = "read" -> BridgeCall("read", context, t)
      [] op = "write" -> BridgeCall("write", context, t)
      [] op = "flush" -> BridgeCall("flush", context, t)
      [] OTHER -> IF notified THEN EngineNoIo
                  ELSE BridgeCall("write", context, t)

\* A with_context that leaves the bridge's context as it found it
AttachContextKeeps(old, ctx) == old

\* A with_context that attaches the poll's context only to a bridge that
\* carries none
AttachContextIfNull(old, ctx) == IF old = Null THEN ctx ELSE old

\* TlsStream::with_context, first statement: attach the poll's context
AttachContext(old, ctx) == ctx

\* A guard whose drop leaves the context where it is
GuardDropKeeps(context) == context

\* Guard::drop: runs when with_context returns or unwinds
GuardDrop(context) == Null

\* The match in poll_close
CloseMatch(r) ==
    CASE r.res = "Ok" -> Ready(IoOk(0))
      [] r.res = "Err" /\ r.err = "WouldBlock" -> Pending
      [] r.res = "Err" -> Ready(r)
      [] OTHER -> Unwind

\* What a poll of the stream leaves behind and hands to its caller
StreamOut(op, ctx, attached, e, ret) ==
    [op |-> op, ctx |-> ctx, poll |-> ret.poll, res |-> ret.r.res,
     err |-> ret.r.err, n |-> ret.r.n, hsCalls |-> 0, entries |-> <<>>,
     iters |-> 0,
     engCalls |-> 1,
     engRes |-> e.r.res, engErr |-> e.r.err, io |-> e.io, tOps |-> e.tOps,
     tErr |-> e.tErr, notReady |-> e.notReady, took |-> e.took,
     tN |-> e.tN,
     seen |-> e.seen, found |-> Null, context |-> GuardDrop(attached)]

\* AsyncRead::poll_read for TlsStream
poll_read(context, ctx, t, mode, notified) ==
    LET attached == AttachContext(context, ctx)
        e == EngineCall("read", attached, t, mode, notified)
    IN  StreamOut("read", ctx, attached, e, cvt(e.r))

\* AsyncWrite::poll_write for TlsStream
poll_write(context, ctx, t, mode, notified) ==
    LET attached == AttachContext(context, ctx)
        e == EngineCall("write", attached, t, mode, notified)
    IN  StreamOut("write", ctx, attached, e, cvt(e.r))

\* AsyncWrite::poll_flush for TlsStream
poll_flush(context, ctx, t, mode, notified) ==
    LET attached == AttachContext(context, ctx)
        e == EngineCall("flush", attached, t, mode, notified)
    IN  StreamOut("flush", ctx, attached, e, cvt(e.r))

\* AsyncWrite::poll_close for TlsStream
poll_close(context, ctx, t, mode, notified) ==
    LET attached == AttachContext(context, ctx)
        e == EngineCall("shutdown", attached, t, mode, notified)
    IN  StreamOut("close", ctx, attached, e, CloseMatch(e.r))

\* ------------------------------------------------------------ state
VARIABLES
    fut,        \* per instance: suspension point of the `handshake` future
    pend,       \* per instance: PendingTlsStream's inner slot
    mid,        \* per instance: MidHandshake's Option slot
    bridge,     \* per instance: the AllowStd bridge: alive, context
    tls,        \* per instance: the TlsStream handed to the caller
    certOk,     \* per instance: what the engine makes of the peer
    wbLeft,     \* per instance: would-block answers the transport has left
    polls,      \* per instance: polls issued so far
    last,       \* per instance: what the last poll did and returned
    hsResults,  \* per instance: what each poll of the future returned
    engFail,    \* per instance: the hard failure the engine's handshake reported
    writer,     \* loopback: the instance that writes; the other one reads
    msg,        \* loopback: the payload the writing side sends
    sent,       \* loopback: payload bytes poll_write has reported written
    wire,       \* loopback: ciphertext the transport holds in flight
    rcvd,       \* loopback: the bytes poll_read has handed to the reader
    held,       \* loopback: ciphertext the writer's engine holds buffered
    builder,    \* the connector builder's accept-invalid settings
    backend,    \* the platform engine the crate is built against
    peer,       \* the certificate the peer presents
    started     \* per instance: a StartedHandshakeFuture polled by itself

loopVars == <<writer, msg, sent, wire, rcvd, held>>

certVars == <<builder, backend, peer>>

vars == <<fut, pend, mid, bridge, tls, certOk, wbLeft, polls, last, hsResults,
          engFail, loopVars, certVars, started>>

NoLast ==
    [op |-> "none", ctx |-> Null, poll |-> "none", res |-> "none",
     err |-> "none", n |-> 0, hsCalls |-> 0, entries |-> <<>>, iters |-> 0,
     engCalls |-> 0,
     engRes |-> "none", engErr |-> "none", io |-> 0, tOps |-> <<>>,
     tErr |-> "none", notReady |-> FALSE, took |-> FALSE, tN |-> 0,
     seen |-> {}, found |-> Null,
     context |-> Null]

NoBridge == [alive |-> FALSE, context |-> Null]
\* closes: closure notifications the transport has taken; closeSusp: polls
\* of poll_close that returned Pending; engCalls: engine calls made by the
\* stream's polls; suspends: polls of the stream that returned Pending
NoStream ==
    [established |-> FALSE, notified |-> FALSE, closes |-> 0, closeSusp |-> 0,
     engCalls |-> 0, suspends |-> 0]

\* The stream's counters after a poll that returned o
StreamCounts(st, o) ==
    [st EXCEPT !.engCalls = @ + o.engCalls,
               !.suspends = IF o.poll = "Pending" THEN @ + 1 ELSE @]

\* No StartedHandshakeFuture is polled by itself: `handshake` drives its own
NoStarted == [i \in Inst |-> "Absent"]

\* native_tls::TlsConnector::builder(): nothing dangerous enabled
BuilderNew == [accept_invalid_certs |-> FALSE, accept_invalid_hostnames |-> FALSE]

\* Outside the certificate scenarios the engine and the peer are left open
Unspecified == "unspecified"

Init ==
    /\ builder = BuilderNew
    /\ backend = Unspecified
    /\ peer = Unspecified
    /\ started = NoStarted
    /\ fut = [i \in Inst |-> "None"]
    /\ pend = [i \in Inst |-> NoPending]
    /\ mid = [i \in Inst |-> NoMid]
    /\ bridge = [i \in Inst |-> NoBridge]
    /\ tls = [i \in Inst |-> NoStream]
    /\ certOk = [i \in Inst |-> "ok"]
    /\ wbLeft = [i \in Inst |-> 0]
    /\ polls = [i \in Inst |-> 0]
    /\ last = [i \in Inst |-> NoLast]
    /\ hsResults = [i \in Inst |-> <<>>]
    /\ engFail = [i \in Inst |-> "none"]
    /\ writer = 1
    /\ msg = <<>>
    /\ sent = 0
    /\ wire = <<>>
    /\ rcvd = <<>>
    /\ held = <<>>

\* The hard failure in an engine answer
FailureOf(e) == IF e.res = "Failure" THEN e.err ELSE "none"

\* TlsConnector::connect / TlsAcceptor::accept: build the future; nothing
\* of its body runs before the first poll.  The peer and the transport the
\* caller supplies are the inputs.
ConnectOver(i, V) ==
    /\ fut[i] = "None" /\ pend[i].tag = "None"
    /\ \E c \in V, w \in 0..MaxWouldBlock :
          /\ certOk' = [certOk EXCEPT ![i] = c]
          /\ wbLeft' = [wbLeft EXCEPT ![i] = w]
    /\ fut' = [fut EXCEPT ![i] = "Created"]
    /\ UNCHANGED <<pend, mid, bridge, tls, polls, last, hsResults, engFail, loopVars, certVars, started>>

\* What connector.rs's connect did before it returned: the engine's
\* initial call, with answer e, and the transport operations it made
ConnectedBy(e) ==
    [NoLast EXCEPT !.op = "connect", !.hsCalls = 1, !.io = e.io,
                   !.entries = <<Entry("initial", 0, e)>>,
                   !.notReady = e.notReady, !.engErr = FailureOf(e)]

\* connector.rs TlsConnector::connect / acceptor.rs TlsAcceptor::accept:
\* the engine's initial call is made here, over stream.compat(), and its
\* answer is wrapped by PendingTlsStream::new.
ConnectPendingOver(i, V, S) ==
    /\ fut[i] = "None" /\ pend[i].tag = "None"
    /\ \E c \in V, w \in 0..MaxWouldBlock, s \in S :
          /\ EngineHandshake(0, CompatBridge, s, c).wb <= w
          /\ certOk' = [certOk EXCEPT ![i] = c]
          /\ wbLeft' = [wbLeft EXCEPT ![i] =
                            w - EngineHandshake(0, CompatBridge, s, c).wb]
          /\ pend' = [pend EXCEPT ![i] =
                            HandshakeFrom(EngineHandshake(0, CompatBridge, s, c))]
          /\ engFail' = [engFail EXCEPT ![i] =
                            FailureOf(EngineHandshake(0, CompatBridge, s, c))]
          /\ last' = [last EXCEPT ![i] =
                            ConnectedBy(EngineHandshake(0, CompatBridge, s, c))]
    /\ UNCHANGED <<fut, mid, bridge, tls, polls, hsResults, loopVars, certVars, started>>

Connect(i) == ConnectOver(i, Verdicts)
ConnectPending(i) == ConnectPendingOver(i, Verdicts, Scripts)

\* What the caller of the future sees
HsResult(o) ==
    CASE o.poll = "Pending" -> "Pending"
      [] o.poll = "Ready" /\ o.val = "Stream" -> "Stream"
      [] o.poll = "Ready" -> "Err"
      [] OTHER -> "Panic"

\* One poll of the future returned by connect / accept, over a transport
\* that answers the poll's exchanges by one of the scripts in S
HandshakePollOver(i, S) ==
    /\ fut[i] # "None"
    /\ polls[i] < MaxPolls
    /\ \E cx \in Ctx, s1 \in S :
        \E s2 \in (IF fut[i] = "Created" THEN S ELSE {s1}) :
          LET o == handshake(fut[i], mid[i], cx, s1, s2, certOk[i])
          IN  /\ o.wb <= wbLeft[i]
              /\ fut' = [fut EXCEPT ![i] = o.st]
              /\ mid' = [mid EXCEPT ![i] = o.mid]
              /\ bridge' = [bridge EXCEPT ![i] =
                                \* a finished future no longer owns the bridge
                                IF fut[i] \in {"Returned", "Panicked"} THEN @
                                ELSE [alive |-> o.alive, context |-> o.context]]
              /\ tls' = [tls EXCEPT ![i].established =
                                @ \/ (o.poll = "Ready" /\ o.val = "Stream")]
              /\ wbLeft' = [wbLeft EXCEPT ![i] = @ - o.wb]
              /\ last' = [last EXCEPT ![i] =
                                [NoLast EXCEPT !.op = "handshake", !.ctx = cx,
                                    !.poll = o.poll, !.res = HsResult(o),
                                    !.err = o.err, !.engErr = o.engErr,
                                    !.hsCalls = o.hsCalls, !.io = o.io,
                                    !.entries = o.entries,
                                    !.notReady = o.notReady, !.seen = o.seen,
                                    !.found = bridge[i].context,
                                    !.context = o.context]]
              /\ hsResults' = [hsResults EXCEPT ![i] = Append(@, HsResult(o))]
              /\ engFail' = [engFail EXCEPT ![i] =
                                IF o.engErr # "none" THEN o.engErr ELSE @]
    /\ polls' = [polls EXCEPT ![i] = @ + 1]
    /\ UNCHANGED <<pend, certOk, loopVars, certVars, started>>

\* One poll of the future returned by connect / accept
HandshakePoll(i) == HandshakePollOver(i, Scripts)

\* What the caller of a PendingTlsStream sees
PendingResult(o) ==
    CASE o.poll = "Pending" -> "Pending"
      [] o.val = "Stream" -> "Stream"
      [] o.variant = "RepeatedHandshake" -> "Repeated"
      [] OTHER -> "Err"

\* One poll of the PendingTlsStream returned by connect / accept, over a
\* transport that answers by one of the scripts in S
PendingPollOver(i, S) ==
    /\ pend[i].tag # "None"
    /\ polls[i] < MaxPolls
    /\ \E cx \in Ctx, s \in S :
          LET o == PendingTlsStreamPoll(pend[i], s, certOk[i], NoAcc)
          IN  /\ o.wb <= wbLeft[i]
              /\ pend' = [pend EXCEPT ![i] = o.inner]
              /\ wbLeft' = [wbLeft EXCEPT ![i] = @ - o.wb]
              /\ last' = [last EXCEPT ![i] =
                                [NoLast EXCEPT !.op = "pending", !.ctx = cx,
                                    !.poll = o.poll, !.res = PendingResult(o),
                                    !.err = o.cause, !.engErr = o.engErr,
                                    !.hsCalls = o.hsCalls, !.iters = o.iters,
                                    !.entries = o.entries,
                                    !.io = o.io, !.notReady = o.notReady]]
              /\ hsResults' = [hsResults EXCEPT ![i] = Append(@, PendingResult(o))]
              /\ engFail' = [engFail EXCEPT ![i] =
                                IF o.engErr # "none" THEN o.engErr ELSE @]
    /\ polls' = [polls EXCEPT ![i] = @ + 1]
    /\ UNCHANGED <<fut, mid, bridge, tls, certOk, loopVars, certVars, started>>

\* One poll of the PendingTlsStream returned by connect / accept
PendingPoll(i) == PendingPollOver(i, Scripts)

\* How many would-block answers a stream poll used up
WbUsed(o) == IF o.engRes = "Err" /\ o.engErr = "WouldBlock" THEN 1 ELSE 0

\* Stream polls over a context reference shared by every bridge instead
\* of one held by each AllowStd
StreamStepSharedContext(i, o) ==
    /\ WbUsed(o) <= wbLeft[i]
    /\ wbLeft' = [wbLeft EXCEPT ![i] = @ - WbUsed(o)]
    /\ bridge' = [j \in Inst |-> [bridge[j] EXCEPT !.context = o.context]]
    /\ tls' = [tls EXCEPT ![i] = StreamCounts(@, o)]
    /\ last' = [last EXCEPT ![i] = [o EXCEPT !.found = bridge[i].context]]
    /\ polls' = [polls EXCEPT ![i] = @ + 1]
    /\ UNCHANGED <<fut, pend, mid, certOk, hsResults, engFail, loopVars, certVars, started>>

\* The bookkeeping common to the four stream polls
StreamStep(i, o) ==
    /\ WbUsed(o) <= wbLeft[i]
    /\ wbLeft' = [wbLeft EXCEPT ![i] = @ - WbUsed(o)]
    /\ bridge' = [bridge EXCEPT ![i].context = o.context]
    /\ tls' = [tls EXCEPT ![i] = StreamCounts(@, o),
                ![i].notified =
                    @ \/ (o.op = "close" /\ o.engRes = "Ok"),
                ![i].closes =
                    IF o.op = "close" /\ o.took THEN @ + 1 ELSE @,
                ![i].closeSusp =
                    IF o.op = "close" /\ o.poll = "Pending" THEN @ + 1 ELSE @]
    /\ last' = [last EXCEPT ![i] = [o EXCEPT !.found = bridge[i].context]]
    /\ polls' = [polls EXCEPT ![i] = @ + 1]
    /\ UNCHANGED <<fut, pend, mid, certOk, hsResults, engFail, loopVars, certVars, started>>

StreamModes == {"io", "fail"}

\* One poll_read over a transport that gives one of the answers in T
PollReadOver(i, T, M) ==
    /\ tls[i].established /\ polls[i] < MaxPolls
    /\ \E cx \in Ctx, t \in T, m \in M :
          StreamStep(i, poll_read(bridge[i].context, cx, t, m, tls[i].notified))

DoPollRead(i) == PollReadOver(i, TransportOutcomes, StreamModes)

DoPollWrite(i) ==
    /\ tls[i].established /\ polls[i] < MaxPolls
    /\ \E cx \in Ctx, t \in TransportOutcomes, m \in StreamModes :
          StreamStep(i, poll_write(bridge[i].context, cx, t, m, tls[i].notified))

DoPollFlush(i) ==
    /\ tls[i].established /\ polls[i] < MaxPolls
    /\ \E cx \in Ctx, t \in TransportOutcomes, m \in StreamModes :
          StreamStep(i, poll_flush(bridge[i].context, cx, t, m, tls[i].notified))

DoPollClose(i) ==
    /\ tls[i].established /\ polls[i] < MaxPolls
    /\ \E cx \in Ctx, t \in TransportOutcomes, m \in StreamModes :
          StreamStep(i, poll_close(bridge[i].context, cx, t, m, tls[i].notified))

Step(i) ==
    \/ Connect(i)
    \/ ConnectPending(i)
    \/ HandshakePoll(i)
    \/ PendingPoll(i)
    \/ DoPollRead(i)
    \/ DoPollWrite(i)
    \/ DoPollFlush(i)
    \/ DoPollClose(i)

Next == \E i \in Solo : Step(i)

Spec == Init /\ [][Next]_vars

\* The driver of instance i still owes its caller a result
Unfinished(i) ==
    \/ fut[i] \in {"Created", "AwaitMid"}
    \/ pend[i].tag # "None" /\ pend[i].variant # "RepeatedHandshake"

\* The caller polls the unfinished driver of instance i once more.  While
\* the driver is unfinished its poll (HandshakePoll, PendingPoll) is the
\* only step that counts a poll of i.
RePolled(i) ==
    /\ Unfinished(i)
    /\ polls[i] < MaxPolls
    /\ polls' = [polls EXCEPT ![i] = @ + 1]

\* The caller polls a handshake again whenever it is left suspended
LiveSpec ==
    /\ Spec
    /\ \A i \in Solo : WF_polls(RePolled(i))

\* ------------------------------------------------------------ two instances
\* One connector driving two handshakes at once: the polls of the two
\* futures and of the two streams interleave in any order.
\* connect over a transport that still has all its would-block answers to
\* give, to a peer the engine accepts
PairConnect(i) ==
    /\ fut[i] = "None" /\ pend[i].tag = "None"
    /\ certOk' = [certOk EXCEPT ![i] = "ok"]
    /\ wbLeft' = [wbLeft EXCEPT ![i] = MaxWouldBlock]
    /\ fut' = [fut EXCEPT ![i] = "Created"]
    /\ UNCHANGED <<pend, mid, bridge, tls, polls, last, hsResults, engFail, loopVars, certVars, started>>

\* The transports of the pair are ready or not ready, and do not fail
PairOutcomes == {Pending, Ready(IoOk(1))}
PairScripts == {s \in Scripts : \A j \in 1..HsSteps : s[j] \in PairOutcomes}

PairHandshakePoll(i) == polls[i] < PairPolls /\ HandshakePollOver(i, PairScripts)
PairPollRead(i) == polls[i] < PairPolls /\ PollReadOver(i, PairOutcomes, {"io"})

PairStep(i) ==
    \/ PairConnect(i)
    \/ PairHandshakePoll(i)
    \/ PairPollRead(i)

NextPair == \E i \in Inst : PairStep(i)

SpecPair == Init /\ [][NextPair]_vars

\* Everything instance i owns
InstState(i) ==
    <<fut[i], pend[i], mid[i], bridge[i], tls[i], certOk[i], wbLeft[i],
      polls[i], last[i], hsResults[i], engFail[i]>>

\* ------------------------------------------------------------ loopback
\* examples/echo.rs: a connector and an acceptor of one process joined by a
\* transport.  Instance `writer` writes msg with poll_write, its peer
\* reads with poll_read; wire is what the transport holds in between.
Bytes == {1, 2}
Payloads == UNION {[1..n -> Bytes] : n \in 0..MaxLen}
Peer(i) == IF i = 1 THEN 2 ELSE 1
Min(a, b) == IF a < b THEN a ELSE b

\* The engine's record protection, byte for byte, and its inverse
EngineSeal(s) == [j \in 1..Len(s) |-> s[j] + 10]
EngineOpen(s) == [j \in 1..Len(s) |-> s[j] - 10]

\* What a handshake that completes within the first poll leaves behind
AllOk == [j \in 1..HsSteps |-> Ready(IoOk(1))]
EstablishedBy(cx) == handshake("Created", NoMid, cx, AllOk, AllOk, "ok")
EstablishedLast(cx, o) ==
    [NoLast EXCEPT !.op = "handshake", !.ctx = cx, !.poll = o.poll,
        !.res = HsResult(o), !.err = o.err, !.engErr = o.engErr,
        !.hsCalls = o.hsCalls, !.io = o.io, !.notReady = o.notReady,
        !.seen = o.seen, !.context = o.context]

\* Both ends established, each transport with its would-block answers
\* still to give; the writing end and the payload are the inputs.
InitLoop ==
    /\ builder = BuilderNew
    /\ backend = Unspecified
    /\ peer = Unspecified
    /\ started = NoStarted
    /\ fut = [i \in Inst |-> "Returned"]
    /\ pend = [i \in Inst |-> NoPending]
    /\ mid = [i \in Inst |-> NoMid]
    /\ bridge = [i \in Inst |->
                    [alive |-> TRUE, context |-> EstablishedBy(1).context]]
    /\ tls = [i \in Inst |-> [NoStream EXCEPT !.established = TRUE]]
    /\ certOk = [i \in Inst |-> "ok"]
    /\ wbLeft = [i \in Inst |-> MaxWouldBlock]
    /\ polls = [i \in Inst |-> 1]
    /\ last = [i \in Inst |-> EstablishedLast(1, EstablishedBy(1))]
    /\ hsResults = [i \in Inst |-> <<"Stream">>]
    /\ engFail = [i \in Inst |-> "none"]
    /\ writer \in Inst
    /\ msg \in Payloads
    /\ sent = 0
    /\ wire = <<>>
    /\ rcvd = <<>>
    /\ held = <<>>

\* The answers a loopback transport may give to a transfer of k bytes
LoopTransport(i, k) ==
    {Ready(IoOk(k))} \cup (IF wbLeft[i] > 0 THEN {Pending} ELSE {})

\* The transport carried out the transfer the bridge asked for
Transferred(o, t) ==
    o.tOps # <<>> /\ t.poll = "Ready" /\ t.r.res = "Ok"

\* The bookkeeping common to the polls of the loopback pair
LoopStep(i, o) ==
    /\ wbLeft' = [wbLeft EXCEPT ![i] = @ - WbUsed(o)]
    /\ bridge' = [bridge EXCEPT ![i].context = o.context]
    /\ last' = [last EXCEPT ![i] = [o EXCEPT !.found = bridge[i].context]]
    /\ polls' = [polls EXCEPT ![i] = @ + 1]
    /\ tls' = [tls EXCEPT ![i] = StreamCounts(@, o)]
    /\ UNCHANGED <<fut, pend, mid, certOk, hsResults, engFail, writer, msg,
                   certVars, started>>

\* The writer's poll_write returned o after the transport answered t
WriteDone(t, o) ==
    /\ LoopStep(writer, o)
    /\ wire' = IF Transferred(o, t)
               THEN wire \o EngineSeal(SubSeq(msg, sent + 1, sent + t.r.n))
               ELSE wire
    /\ sent' = IF o.poll = "Ready" /\ o.res = "Ok" THEN sent + o.n ELSE sent
    /\ UNCHANGED <<rcvd, held>>

\* The writer polls poll_write with the rest of the payload (or a part of
\* it); the engine seals at most RecMax bytes of it into one record and
\* writes the record through the bridge.
LoopWrite ==
    /\ sent < Len(msg) \/ (Len(msg) = 0 /\ last[writer].op # "write")
    /\ \E cx \in Ctx, n \in 0..(Len(msg) - sent) :
          /\ n > 0 \/ Len(msg) = 0
          /\ \E t \in LoopTransport(writer, Min(n, RecMax)) :
                WriteDone(t, poll_write(bridge[writer].context, cx, t,
                                        IF n = 0 THEN "empty" ELSE "io",
                                        tls[writer].notified))

\* The reader's poll_read returned o after the transport answered t
ReadDone(t, o) ==
    /\ LoopStep(Peer(writer), o)
    /\ wire' = IF Transferred(o, t)
               THEN SubSeq(wire, t.r.n + 1, Len(wire))
               ELSE wire
    /\ rcvd' = IF o.poll = "Ready" /\ o.res = "Ok"
               THEN rcvd \o EngineOpen(SubSeq(wire, 1, o.n))
               ELSE rcvd
    /\ UNCHANGED <<sent, held>>

\* The reader polls poll_read with a buffer of n bytes; the engine reads
\* through the bridge what the transport holds, at most n bytes, and a
\* transport that holds nothing is not ready.
LoopRead ==
    \E cx \in Ctx, n \in 1..MaxLen :
        \E t \in (IF wire = <<>> THEN LoopTransport(Peer(writer), 0) \ {Ready(IoOk(0))}
                  ELSE LoopTransport(Peer(writer), Min(n, Len(wire)))) :
            ReadDone(t, poll_read(bridge[Peer(writer)].context, cx, t, "io",
                                  tls[Peer(writer)].notified))

NextLoop == LoopWrite \/ LoopRead

SpecLoop == InitLoop /\ [][NextLoop]_vars

\* ------------------------------------------------------------ flush
\* The loopback pair over an engine that keeps an output buffer: a write
\* seals the record into the buffer and tries once to write the buffer out;
\* the bytes count as written even when the transport is not ready, and
\* flush writes the buffer out before it flushes the transport.

\* The engine's write of k payload bytes, given the bridge's answer b to
\* the write-out of the buffer
BufferedWriteAnswer(k, b) ==
    [b EXCEPT !.r = IF b.r.res = "Ok" \/ (b.r.res = "Err" /\ b.r.err = "WouldBlock")
                    THEN IoOk(k) ELSE @]
EngineWriteBuffered(context, t, k) ==
    BufferedWriteAnswer(k, BridgeCall("write", context, t))

\* The engine's calls of one flush, the write-out w followed by the flush f
WriteOutThenFlush(w, f) ==
    [r |-> f.r, io |-> w.io + f.io, tOps |-> w.tOps \o f.tOps, tErr |-> f.tErr,
     notReady |-> f.notReady, took |-> w.took, tN |-> w.tN,
     seen |-> w.seen \cup f.seen]
AfterWriteOut(context, t2, w) ==
    IF w.r.res # "Ok" THEN w
    ELSE WriteOutThenFlush(w, BridgeCall("flush", context, t2))
\* The engine's flush: nothing buffered, flush the transport; otherwise
\* write the buffer out first (transport answer t), then flush (answer t2)
EngineFlushBuffered(context, t, t2, buffered) ==
    IF ~buffered THEN [BridgeCall("flush", context, t2) EXCEPT !.took = FALSE]
    ELSE AfterWriteOut(context, t2, BridgeCall("write", context, t))

\* TlsStream::poll_write and poll_flush over the engine call's outcome e
PollWriteOver(context, ctx, e) ==
    StreamOut("write", ctx, AttachContext(context, ctx), e, cvt(e.r))
PollFlushOver(context, ctx, e) ==
    StreamOut("flush", ctx, AttachContext(context, ctx), e, cvt(e.r))

\* The bookkeeping common to the writer's polls over the buffering engine
FlushStep(o) ==
    /\ wbLeft' = [wbLeft EXCEPT ![writer] = IF o.notReady THEN @ - 1 ELSE @]
    /\ bridge' = [bridge EXCEPT ![writer].context = o.context]
    /\ last' = [last EXCEPT ![writer] = [o EXCEPT !.found = bridge[writer].context]]
    /\ polls' = [polls EXCEPT ![writer] = @ + 1]
    /\ tls' = [tls EXCEPT ![writer] = StreamCounts(@, o)]
    /\ UNCHANGED <<fut, pend, mid, certOk, hsResults, engFail, writer, msg,
                   rcvd, certVars, started>>

\* The writer's poll_write of k payload bytes returned o
BufferedWriteDone(k, o) ==
    /\ FlushStep(o)
    /\ wire' = IF o.took
               THEN wire \o held \o EngineSeal(SubSeq(msg, sent + 1, sent + k))
               ELSE wire
    /\ held' = IF o.took THEN <<>>
               ELSE held \o EngineSeal(SubSeq(msg, sent + 1, sent + k))
    /\ sent' = IF o.poll = "Ready" /\ o.res = "Ok" THEN sent + o.n ELSE sent

BufferedWrite ==
    /\ sent < Len(msg)
    /\ \E cx \in Ctx, k \in 1..Min(RecMax, Len(msg) - sent) :
          \E t \in LoopTransport(writer, Len(held) + k) :
              BufferedWriteDone(k,
                  PollWriteOver(bridge[writer].context, cx,
                      EngineWriteBuffered(AttachContext(bridge[writer].context, cx),
                                          t, k)))

\* The writer's poll_flush returned o
FlushDone(o) ==
    /\ FlushStep(o)
    /\ wire' = IF o.took THEN wire \o held ELSE wire
    /\ held' = IF o.took THEN <<>> ELSE held
    /\ UNCHANGED sent

\* The writer flushes whenever something may be left to flush
LoopFlush ==
    /\ \/ held # <<>>
       \/ last[writer].op = "write"
       \/ last[writer].op = "flush" /\ last[writer].poll = "Pending"
    /\ \E cx \in Ctx :
          \E t \in LoopTransport(writer, Len(held)),
             t2 \in LoopTransport(writer, 0) :
              FlushDone(
                  PollFlushOver(bridge[writer].context, cx,
                      EngineFlushBuffered(AttachContext(bridge[writer].context, cx),
                                          t, t2, held # <<>>)))

\* The reader takes everything the transport holds in one poll_read; its
\* transport is ready whenever there is something to read, and its task
\* polls under one context
FlushRead ==
    /\ wire # <<>>
    /\ \E cx \in {NCtx} :
          ReadDone(Ready(IoOk(Len(wire))),
                   poll_read(bridge[Peer(writer)].context, cx,
                             Ready(IoOk(Len(wire))), "io",
                             tls[Peer(writer)].notified))

NextFlush == BufferedWrite \/ LoopFlush \/ FlushRead

SpecFlush == InitLoop /\ [][NextFlush]_vars

\* ------------------------------------------------------------ claims
HsOps == {"handshake", "pending"}
\* The operations whose engine calls run over stream.compat(), not AllowStd
CompatOps == {"pending", "connect"}
StreamOps == {"read", "write", "flush", "close"}
TerminalResults == {"Stream", "Err"}

\* The last poll of the driver was issued while the handshake was unfinished
DuringHandshake(i) ==
    \A j \in 1..(Len(hsResults[i]) - 1) : hsResults[i][j] = "Pending"

\* The driver has handed its terminal result to the caller
Delivered(i) ==
    \E j \in 1..Len(hsResults[i]) : hsResults[i][j] \in TerminalResults

\* C1: after any poll of a handshake future or of a stream has returned,
\* the bridge's context reference is null.
C1_ContextClearedAfterPoll ==
    \A i \in Inst :
        (last[i].op # "none" /\ bridge[i].alive) => bridge[i].context = Null

\* C2: a poll of a driver that has already delivered its terminal result
\* returns the RepeatedHandshake error (no panic, no stale result).
C2_RepeatedPollFails ==
    \A i \in Inst :
        \A k \in 1..Len(hsResults[i]) :
            (\E j \in 1..(k - 1) : hsResults[i][j] \in TerminalResults)
                => hsResults[i][k] = "Repeated"

C4_HandshakeTerminates ==
    \A i \in Solo :
        (fut[i] # "None" \/ pend[i].tag # "None") ~> Delivered(i)
C4_Witness ==
    /\ Len(hsResults[1]) = 3
    /\ hsResults[1][1] = "Pending" /\ hsResults[1][2] = "Pending"
    /\ hsResults[1][3] \in TerminalResults

\* C5: the polls of one future return Pending until one poll returns the
\* stream or the handshake error, and no later poll returns either again.
C5_TerminalDeliveredOnce ==
    \A i \in Inst :
        \A k \in 1..Len(hsResults[i]) :
            hsResults[i][k] \in TerminalResults =>
                \A j \in 1..(k - 1) : hsResults[i][j] = "Pending"
C5_Witness ==
    /\ Len(hsResults[1]) >= 3
    /\ hsResults[1][2] \in TerminalResults
    /\ pend[1].tag # "None"

\* C6: a stream poll whose engine call reports WouldBlock returns Pending,
\* and no stream poll returns Ready(Err(e)) with e of kind WouldBlock.
C6_WouldBlockNeverAnError ==
    \A i \in Inst :
        last[i].op \in StreamOps =>
            /\ (last[i].engRes = "Err" /\ last[i].engErr = "WouldBlock")
                    => last[i].poll = "Pending"
            /\ ~(last[i].poll = "Ready" /\ last[i].res = "Err"
                    /\ last[i].err = "WouldBlock")
C6_Witness ==
    /\ last[1].op = "read" /\ last[1].poll = "Pending"
    /\ last[1].engErr = "WouldBlock" /\ last[1].notReady

\* C7: a transport or engine error other than would-block in a stream poll
\* is returned by that poll as Ready(Err(e)), e unchanged, after one engine
\* call.
C7_OtherErrorsPropagate ==
    \A i \in Inst :
        last[i].op \in StreamOps =>
            /\ (last[i].engRes = "Err" /\ last[i].engErr # "WouldBlock") =>
                    /\ last[i].poll = "Ready" /\ last[i].res = "Err"
                    /\ last[i].err = last[i].engErr
                    /\ last[i].engCalls = 1
            /\ last[i].tErr \notin {"none", "WouldBlock"} =>
                    /\ last[i].poll = "Ready" /\ last[i].res = "Err"
                    /\ last[i].err = last[i].tErr
C7_Witness ==
    /\ last[1].op = "read" /\ last[1].tErr = "BrokenPipe"
    /\ last[1].poll = "Ready" /\ last[1].err = "BrokenPipe"

\* C8: once the engine's handshake has reported a hard failure, the driver
\* resolves Ready with that error unchanged, makes no further engine
\* handshake call, and never yields a stream.
C8_HandshakeFailureTerminal ==
    \A i \in Inst :
        /\ (engFail[i] # "none" /\ hsResults[i] # <<>>) =>
                \E k \in 1..Len(hsResults[i]) :
                    /\ hsResults[i][k] = "Err"
                    /\ \A j \in 1..(k - 1) : hsResults[i][j] = "Pending"
        /\ (last[i].op \in HsOps /\ last[i].res = "Err") =>
                /\ last[i].poll = "Ready"
                /\ engFail[i] # "none" /\ last[i].err = engFail[i]
        /\ (engFail[i] # "none" /\ last[i].op \in HsOps /\ ~DuringHandshake(i)) =>
                last[i].hsCalls = 0
        /\ engFail[i] # "none" =>
                /\ ~tls[i].established
                /\ \A k \in 1..Len(hsResults[i]) : hsResults[i][k] # "Stream"
C8_Witness ==
    /\ engFail[1] = "CertificateInvalid"
    /\ Len(hsResults[1]) >= 3
    /\ hsResults[1][1] = "Pending" /\ hsResults[1][2] = "Err"

\* C10: when poll_close returns Ready(Ok), the engine's shutdown has
\* completed and the transport's own close has been invoked after it.
C10_CloseShutsTransport ==
    \A i \in Inst :
        (last[i].op = "close" /\ last[i].poll = "Ready" /\ last[i].res = "Ok") =>
            /\ tls[i].notified
            /\ \E k \in 1..Len(last[i].tOps) : last[i].tOps[k] = "poll_close"

\* C9: over the loopback pair, whatever would-block answers the transports
\* give, the bytes the reader has been handed followed by the bytes still in
\* flight are exactly the bytes poll_write has reported written, in order.
C9_RoundTrip ==
    rcvd \o EngineOpen(wire) = SubSeq(msg, 1, sent)
C9_Witness ==
    /\ Len(msg) = MaxLen /\ rcvd = msg
    /\ msg[1] # msg[2]
    /\ wbLeft[writer] < MaxWouldBlock
    /\ wbLeft[Peer(writer)] < MaxWouldBlock

\* C11: however often poll_close is suspended and polled again, the
\* transport takes the closure notification at most once, and a poll_close
\* that returned Pending has left the closure sequence where it was: the
\* notification not yet handed over, to be offered again by the next poll.
C11_CloseNotifiesOnce ==
    \A i \in Inst :
        /\ tls[i].closes <= 1
        /\ tls[i].notified => tls[i].closes = 1
        /\ (last[i].op = "close" /\ last[i].poll = "Pending") =>
                tls[i].closes = 0 /\ ~tls[i].notified
C11_Witness ==
    /\ tls[1].closeSusp >= 1 /\ tls[1].closes = 1
    /\ last[1].op = "close" /\ last[1].poll = "Ready" /\ last[1].res = "Ok"
    /\ last[1].io = 0

\* C12: whenever poll_flush returns Ready(Ok) the engine holds no
\* ciphertext and the transport's flush was invoked last and has completed;
\* and across flushes that return Pending and are polled again the bytes
\* delivered, in flight and buffered are exactly the bytes reported
\* written, none lost and none twice.
C12_FlushDrains ==
    /\ (last[writer].op = "flush" /\ last[writer].poll = "Ready"
            /\ last[writer].res = "Ok") =>
            /\ held = <<>>
            /\ last[writer].tOps # <<>>
            /\ last[writer].tOps[Len(last[writer].tOps)] = "poll_flush"
            /\ ~last[writer].notReady
    /\ rcvd \o EngineOpen(wire) \o EngineOpen(held) = SubSeq(msg, 1, sent)
C12_Witness ==
    /\ last[writer].op = "flush" /\ last[writer].poll = "Ready"
    /\ last[writer].res = "Ok" /\ last[writer].io = 2
    /\ wbLeft[writer] <= MaxWouldBlock - 2
    /\ sent = Len(msg) /\ Len(msg) = MaxLen /\ Len(wire) + Len(rcvd) = MaxLen

\* The writer's first write has just completed over a transport that
\* answered would-block exactly twice before it took the record
FirstWriteAfterTwoWouldBlocks ==
    /\ last[writer].op = "write" /\ last[writer].poll = "Ready"
    /\ last[writer].res = "Ok" /\ last[writer].n > 0
    /\ sent = last[writer].n
    /\ MaxWouldBlock - wbLeft[writer] = 2

\* C13 as stated: such a write takes exactly three engine write calls and
\* exactly three suspensions.
C13_ThreeCallsThreeSuspensions ==
    FirstWriteAfterTwoWouldBlocks =>
        tls[writer].engCalls = 3 /\ tls[writer].suspends = 3

\* C13 as amended: such a write takes exactly three polls of poll_write,
\* each making one engine write call; the first two return Pending (two
\* suspensions) and the third returns Ready.
C13_ThreeCallsTwoSuspensions ==
    FirstWriteAfterTwoWouldBlocks =>
        /\ tls[writer].engCalls = 3
        /\ polls[writer] - Len(hsResults[writer]) = 3
        /\ tls[writer].suspends = 2
C13_Witness ==
    /\ FirstWriteAfterTwoWouldBlocks
    /\ tls[writer].engCalls = 3 /\ tls[writer].suspends = 2

\* C14: in every sequence of polls of a connect / accept future and of
\* poll_read, poll_write, poll_flush, poll_close, each call the engine makes
\* into the bridge finds a context attached: the assertion in
\* AllowStd::with_context never fails.
C14_ContextAttachedAtBridgeCalls ==
    \A i \in Inst :
        /\ last[i].err # "assert"
        /\ Null \notin last[i].seen
        /\ (last[i].io > 0 /\ last[i].op \notin CompatOps) =>
                last[i].seen = {last[i].ctx}
C14_Witness ==
    /\ hsResults[1] = <<"Stream">> /\ bridge[1].alive
    /\ last[1].op \in StreamOps /\ last[1].io = 1
    /\ last[1].seen = {last[1].ctx} /\ last[1].tOps # <<>>
    /\ polls[1] = 2

\* Instance j takes a step: it is connected or polled
Acts(j) == polls'[j] # polls[j] \/ fut'[j] # fut[j]

\* C15: when polls of two instances built from one connector interleave,
\* a step of one instance leaves everything the other owns unchanged (its
\* handshake state, its bridge and the context in it), and the bridge of a
\* polled instance has seen no context but that of its own poll.
C15_NoInterference ==
    [][\A i, j \in Inst :
          /\ (i # j /\ Acts(j)) => InstState(i)' = InstState(i)
          /\ Acts(i) => last'[i].seen \subseteq {last'[i].ctx}]_vars
C15_Witness ==
    /\ hsResults[2] = <<"Stream">> /\ bridge[2].context # Null
    /\ last[1].op = "read" /\ last[1].seen = {last[1].ctx}
    /\ last[1].ctx # bridge[2].context

\* ------------------------------------------------------------ certificates
\* The engines native_tls is built on, as tests/bad.rs tells them apart
Backends == {"rustls", "openssl", "security_framework", "schannel"}

\* The certificate the peer presents: a good one, or one of the four
\* failure classes of tests/bad.rs
BadPeers == {"expired", "wrong_host", "self_signed", "untrusted_root"}
PeerKinds == {"valid"} \cup BadPeers

\* The text by which the tests recognise the engine's error for a bad peer
Diagnostic(b, k) ==
    CASE b = "rustls" ->
            (CASE k = "expired" -> "CertExpired"
               [] k = "wrong_host" -> "CertNotValidForName"
               [] OTHER -> "UnknownIssuer")
      [] b = "openssl" -> "certificate verify failed"
      [] b = "security_framework" -> "was not trusted."
      [] OTHER ->
            (CASE k = "expired" -> "system clock"
               [] k = "wrong_host" -> "CN name"
               [] OTHER -> "root certificate which is not trusted")

\* What the engine makes of peer k under the connector's settings c
EngineValidate(b, k, c) ==
    CASE k = "valid" -> "ok"
      [] c.accept_invalid_certs -> "ok"
      [] k = "wrong_host" /\ c.accept_invalid_hostnames -> "ok"
      [] OTHER -> Diagnostic(b, k)

\* No connector has been built from the builder yet
Unbuilt == \A i \in Inst : fut[i] = "None" /\ pend[i].tag = "None"

\* Everything but the builder
nonBuilderVars ==
    <<fut, pend, mid, bridge, tls, certOk, wbLeft, polls, last, hsResults,
      engFail, loopVars, backend, peer, started>>

\* TlsConnectorBuilder::danger_accept_invalid_certs
danger_accept_invalid_certs ==
    /\ Unbuilt
    /\ \E v \in BOOLEAN : builder' = [builder EXCEPT !.accept_invalid_certs = v]
    /\ UNCHANGED nonBuilderVars

\* TlsConnectorBuilder::danger_accept_invalid_hostnames
danger_accept_invalid_hostnames ==
    /\ Unbuilt
    /\ \E v \in BOOLEAN : builder' = [builder EXCEPT !.accept_invalid_hostnames = v]
    /\ UNCHANGED nonBuilderVars

\* In the certificate scenarios the transport is ready or not ready, and
\* does not fail
CertScripts == PairScripts

\* connect against the scenario's peer, with a connector built from the
\* builder as it stands
CertConnect(i) ==
    ConnectOver(i, {EngineValidate(backend, peer, builder)})
CertConnectPending(i) ==
    ConnectPendingOver(i, {EngineValidate(backend, peer, builder)}, CertScripts)

CertHandshakePoll(i) == HandshakePollOver(i, CertScripts)
CertPendingPoll(i) == PendingPollOver(i, CertScripts)

\* A new builder, on any engine, facing any peer
InitCert ==
    /\ builder = BuilderNew
    /\ backend \in Backends
    /\ peer \in PeerKinds
    /\ started = NoStarted
    /\ fut = [i \in Inst |-> "None"]
    /\ pend = [i \in Inst |-> NoPending]
    /\ mid = [i \in Inst |-> NoMid]
    /\ bridge = [i \in Inst |-> NoBridge]
    /\ tls = [i \in Inst |-> NoStream]
    /\ certOk = [i \in Inst |-> "ok"]
    /\ wbLeft = [i \in Inst |-> 0]
    /\ polls = [i \in Inst |-> 0]
    /\ last = [i \in Inst |-> NoLast]
    /\ hsResults = [i \in Inst |-> <<>>]
    /\ engFail = [i \in Inst |-> "none"]
    /\ writer = 1
    /\ msg = <<>>
    /\ sent = 0
    /\ wire = <<>>
    /\ rcvd = <<>>
    /\ held = <<>>

NextCert ==
    \/ danger_accept_invalid_certs
    \/ danger_accept_invalid_hostnames
    \/ \E i \in Solo :
          \/ CertConnect(i)
          \/ CertConnectPending(i)
          \/ CertHandshakePoll(i)
          \/ CertPendingPoll(i)

SpecCert == InitCert /\ [][NextCert]_vars

\* The connector was built with both accept-invalid settings off
DefaultValidation ==
    ~builder.accept_invalid_certs /\ ~builder.accept_invalid_hostnames

\* C16: with both accept-invalid settings off, a handshake against a peer
\* whose certificate is expired, self-signed, from an untrusted root or for
\* another host never yields a stream: no poll returns one, no stream is
\* established, and whenever the future is Ready it is Ready with an error.
C16_BadPeerNeverYieldsStream ==
    \A i \in Solo :
        (DefaultValidation /\ peer \in BadPeers) =>
            /\ ~tls[i].established
            /\ \A k \in 1..Len(hsResults[i]) : hsResults[i][k] # "Stream"
            /\ (last[i].op \in HsOps /\ last[i].poll = "Ready") =>
                    last[i].res \in {"Err", "Repeated"}

\* A default connector's handshake against an expired peer went through a
\* would-block and then resolved to the engine's error
C16_Witness ==
    /\ DefaultValidation /\ peer = "expired"
    /\ hsResults[1] = <<"Pending", "Err">>
    /\ last[1].op = "handshake"
    /\ last[1].err = Diagnostic(backend, peer)

\* The handshake's last poll handed the caller a handshake error
HandshakeFailed(i) ==
    last[i].op \in HsOps /\ last[i].poll = "Ready" /\ last[i].res = "Err"

\* The engines whose diagnostic for an expired certificate is its own
ExpirySpecific == {"rustls", "schannel"}

\* The failure classes the diagnostics are to tell apart
CausesToTellApart == {"expired", "self_signed", "untrusted_root"}

BridgeOps == {"read", "write", "flush"}

\* The last poll of the stream went through the bridge to the transport
ThroughBridge(i) ==
    last[i].op \in BridgeOps /\ last[i].io = 1 /\ last[i].poll # "Panic"

\* C18: a read, write or flush of the bridge issues exactly one operation
\* against the transport, the one of its own kind, and hands back the
\* outcome translated: Pending as an error of kind WouldBlock, Ready(Ok(n))
\* as Ok(n) with the same count, Ready(Err(e)) as Err(e) with the same error.
C18_BridgeTranslation ==
    \A i \in Solo :
        ThroughBridge(i) =>
            /\ last[i].tOps = <<TransportOpOf(last[i].op)>>
            /\ last[i].notReady =>
                    last[i].engRes = "Err" /\ last[i].engErr = "WouldBlock"
            /\ last[i].took =>
                    /\ last[i].engRes = "Ok"
                    /\ last[i].poll = "Ready" /\ last[i].n = last[i].tN
            /\ last[i].tErr # "none" =>
                    last[i].engRes = "Err" /\ last[i].engErr = last[i].tErr
            /\ last[i].notReady \/ last[i].took \/ last[i].tErr # "none"

\* A flush found the transport failed and handed its error on
C18_Witness ==
    /\ ThroughBridge(1)
    /\ last[1].op = "flush"
    /\ last[1].tOps = <<"poll_flush">>
    /\ last[1].tErr = "BrokenPipe"
    /\ last[1].engErr = "BrokenPipe"

\* The continuation a driver holds between polls: MidHandshake's Option
\* slot, or the Midhandshake variant of PendingTlsStream's inner
Stored(m, pe) ==
    CASE pe.tag = "Midhandshake" -> SomeMid(pe.progress)
      [] pe.tag # "None" -> NoMid
      [] OTHER -> m

\* Instance i's future was polled in this step
HsPolled(i) == hsResults'[i] # hsResults[i]

\* The engine calls of the poll just made follow one another as retries:
\* the first one retries the continuation stored before the poll, if there
\* was one; a further call in the same poll retries the continuation the
\* call before it returned with would-block; and the initial call is made
\* only as the first call of the first poll.
RetriesFollow(i) ==
    LET es == last'[i].entries
    IN  /\ (Stored(mid[i], pend[i]).some /\ last'[i].poll # "Panic") =>
                /\ es # <<>>
                /\ es[1].call = "retry"
                /\ es[1].p = Stored(mid[i], pend[i]).progress
        /\ \A k \in 1..(Len(es) - 1) :
                /\ es[k].res = "WouldBlock"
                /\ es[k + 1].call = "retry"
                /\ es[k + 1].p = es[k].q
        /\ \A k \in 1..Len(es) :
                es[k].call = "initial" => (k = 1 /\ hsResults[i] = <<>>)

\* The poll just made returned Pending exactly when its last engine call
\* reported would-block, and the continuation that call returned is the
\* one now stored
LastWouldBlockStored(i) ==
    LET es == last'[i].entries
    IN  /\ last'[i].poll = "Pending" =>
                /\ es # <<>>
                /\ es[Len(es)].res = "WouldBlock"
                /\ Stored(mid'[i], pend'[i]) = SomeMid(es[Len(es)].q)
        /\ (es # <<>> /\ es[Len(es)].res = "WouldBlock") =>
                last'[i].poll = "Pending"

\* Every engine call of the poll just made that reported would-block made
\* the poll return Pending with the continuation it returned stored
EveryWouldBlockStored(i) ==
    \A k \in 1..Len(last'[i].entries) :
        last'[i].entries[k].res = "WouldBlock" =>
            /\ last'[i].poll = "Pending"
            /\ Stored(mid'[i], pend'[i]) = SomeMid(last'[i].entries[k].q)

C20_InitialCallInsideFirstPoll ==
    \A i \in Solo :
        /\ polls[i] = 0 => (last[i].hsCalls = 0 /\ last[i].io = 0)
        /\ \A k \in 1..Len(last[i].entries) :
                last[i].entries[k].call = "initial" =>
                    /\ last[i].op \in HsOps
                    /\ k = 1 /\ Len(hsResults[i]) = 1
                    /\ last[i].io > 0 => last[i].seen = {last[i].ctx}

\* The polls of the stream issued so far on instance i
StreamPolls(i) == polls[i] - Len(hsResults[i])

\* C21: each poll_read, poll_write, poll_flush and poll_close on an
\* established stream attaches its own context, makes at most one
\* synchronous engine call and has detached the context when it returns;
\* so every poll issued so far has run to its end, engine call included,
\* before the next one was issued: they complete in issuance order.
C21_OnePollAtATime ==
    \A i \in Inst :
        last[i].op \in StreamOps =>
            /\ last[i].engCalls <= 1
            /\ last[i].io > 0 => last[i].seen = {last[i].ctx}
            /\ last[i].context = Null /\ bridge[i].context = Null
            /\ tls[i].engCalls = StreamPolls(i)

\* Three polls of the stream in a row, the last a write that went to the
\* transport under its own context
C21_Witness ==
    /\ StreamPolls(1) = 3 /\ tls[1].engCalls = 3
    /\ last[1].op = "write" /\ last[1].io = 1
    /\ last[1].seen = {last[1].ctx}
    /\ bridge[1].context = Null

\* C22: a poll of the handshake future or of the stream returns Pending
\* only if, within that poll, the transport was polled with the poll's own
\* context and answered not ready; no poll returns Pending otherwise.
C22_PendingOnlyWhenTransportNotReady ==
    \A i \in Inst :
        (last[i].op \in HsOps \cup StreamOps /\ last[i].poll = "Pending") =>
            /\ last[i].notReady
            /\ last[i].seen = {last[i].ctx}

\* ------------------------------------------------------------ accessors
\* What an accessor hands back and what it leaves of the bridge b: a
\* reference to the bridge's field `inner`, the bridge as it was
AccessorOut(b) == [ref |-> "inner", bridge |-> b]

\* An accessor that hands the transport out of the bridge, which is gone
\* afterwards
get_mut_takes(b) == [ref |-> "inner", bridge |-> [b EXCEPT !.alive = FALSE]]

\* TlsStream::get_ref
get_ref(b) == AccessorOut(b)

\* TlsStream::get_mut
get_mut(b) == AccessorOut(b)

AccessorOps == {"get_ref", "get_mut"}

\* The caller uses accessor op of the stream of instance i and got a
\* (the reference, and the bridge as the accessor left it)
AccessorStep(i, op, a) ==
    /\ tls[i].established
    /\ bridge' = [bridge EXCEPT ![i] = a.bridge]
    /\ last' = [last EXCEPT ![i] =
                    [NoLast EXCEPT !.op = op, !.res = a.ref,
                                   !.context = a.bridge.context]]
    /\ UNCHANGED <<fut, pend, mid, tls, certOk, wbLeft, polls, hsResults,
                   engFail, loopVars, certVars, started>>

GetRef(i) == AccessorStep(i, "get_ref", get_ref(bridge[i]))
GetMut(i) == AccessorStep(i, "get_mut", get_mut(bridge[i]))

\* A caller that connects over a transport that is ready or not ready,
\* polls the stream and looks at the transport in between
AccessConnect(i) == ConnectOver(i, {"ok"})
AccessHandshakePoll(i) == HandshakePollOver(i, PairScripts)

NextAccess ==
    \E i \in Solo :
        \/ AccessConnect(i)
        \/ AccessHandshakePoll(i)
        \/ DoPollRead(i)
        \/ DoPollWrite(i)
        \/ GetRef(i)
        \/ GetMut(i)

SpecAccess == Init /\ [][NextAccess]_vars

\* Instance i's stream was accessed in this step, not polled
Accessed(i) ==
    last'[i].op \in AccessorOps /\ last'[i] # last[i]

\* C23: get_ref and get_mut hand out the transport inside the bridge and
\* nothing else changes: the bridge still owns the transport, its context
\* reference and the engine's state (the stream, the would-block answers
\* left, the driver) are as they were, and the stream is still established
\* for the polls that follow.
C23_AccessorsTouchNothing ==
    [][\A i \in Solo :
            Accessed(i) =>
                /\ last'[i].res = "inner"
                /\ bridge'[i] = bridge[i]
                /\ tls'[i] = tls[i] /\ wbLeft'[i] = wbLeft[i]
                /\ fut'[i] = fut[i] /\ mid'[i] = mid[i] /\ polls'[i] = polls[i]
                /\ tls'[i].established /\ bridge'[i].alive]_vars

\* get_mut was called on a stream whose bridge still carried the context
\* of the poll that established it
C23_Witness ==
    /\ last[1].op = "get_mut" /\ last[1].res = "inner"
    /\ bridge[1].alive /\ bridge[1].context # Null
    /\ last[1].context = bridge[1].context
    /\ hsResults[1] = <<"Pending", "Stream">>

\* C24: whenever the bridge reads its context reference during a poll, what
\* it reads is the context of that poll: a context the bridge still carried
\* when the poll began, left there by an earlier poll, is overwritten before
\* the engine is called and never read, whatever polls came before.
C24_NoStaleContextRead ==
    \A i \in Inst :
        (last[i].op \in {"handshake"} \cup StreamOps) =>
            /\ last[i].seen \subseteq {last[i].ctx}
            /\ (last[i].found # last[i].ctx) => last[i].found \notin last[i].seen

\* A stream poll found the context of an earlier poll still in the bridge,
\* ran under another one and went to the transport with its own
C24_Witness ==
    /\ last[1].op \in StreamOps
    /\ last[1].found # Null /\ last[1].found # last[1].ctx
    /\ last[1].io = 1 /\ last[1].seen = {last[1].ctx}

\* The last engine handshake call of the last poll of instance i
LastEntry(i) == last[i].entries[Len(last[i].entries)]

\* C25: a transport that answers Ready(Err(e)) with e of kind WouldBlock is
\* taken for one that is not ready: the bridge hands the error on as it is,
\* the stream poll returns Pending, and a handshake poll whose engine call
\* ended on it stores the continuation and suspends, although the transport
\* never answered Pending in that poll.
C25_ReadyWouldBlockSuspends ==
    \A i \in Inst :
        /\ (last[i].op \in StreamOps /\ last[i].tErr = "WouldBlock") =>
                /\ last[i].engRes = "Err" /\ last[i].engErr = "WouldBlock"
                /\ last[i].poll = "Pending"
                /\ ~last[i].notReady
        /\ (last[i].op = "handshake" /\ last[i].entries # <<>>
                /\ LastEntry(i).res = "WouldBlock" /\ ~last[i].notReady) =>
                /\ last[i].poll = "Pending"
                /\ fut[i] = "AwaitMid"
                /\ mid[i] = SomeMid(LastEntry(i).q)

\* A read of the stream returned Pending over a transport that had answered
\* Ready(Err(WouldBlock)), after a handshake that had been suspended once
C25_Witness ==
    /\ hsResults[1] = <<"Pending", "Stream">>
    /\ last[1].op = "read" /\ last[1].tErr = "WouldBlock"
    /\ last[1].poll = "Pending" /\ ~last[1].notReady

\* C26: the driver's slot tells whether the result is still owed.  The
\* MidHandshake slot is Some exactly while the future is suspended in it:
\* Some after every poll that returned Pending, None after a poll that
\* returned Ready.  PendingTlsStream's slot is Midhandshake after every poll
\* that returned Pending and Error(RepeatedHandshake) after every poll that
\* returned Ready.
C26_SlotTracksDelivery ==
    \A i \in Inst :
        /\ mid[i].some <=> fut[i] = "AwaitMid"
        /\ (last[i].op = "handshake" /\ last[i].poll = "Pending") => mid[i].some
        /\ (last[i].op = "handshake" /\ last[i].poll = "Ready") => ~mid[i].some
        /\ (last[i].op = "pending" /\ last[i].poll = "Pending") =>
                pend[i].tag = "Midhandshake"
        /\ (last[i].op = "pending" /\ last[i].poll = "Ready") =>
                pend[i] = HsError("RepeatedHandshake", "none")

\* A PendingTlsStream that returned Pending and then the stream, with
\* Error(RepeatedHandshake) left in its slot
C26_Witness ==
    /\ hsResults[1] = <<"Pending", "Stream">>
    /\ last[1].op = "pending" /\ last[1].poll = "Ready"
    /\ pend[1].tag = "Error" /\ pend[1].variant = "RepeatedHandshake"

\* ------------------------------------------------------------ StartedHandshakeFuture
\* StartedHandshakeFuture polled by itself, as often as the caller likes.
\* Its Option is "Some" from construction until the first poll takes it.
InitStarted ==
    /\ builder = BuilderNew
    /\ backend = Unspecified
    /\ peer = Unspecified
    /\ started = [i \in Inst |-> "Some"]
    /\ fut = [i \in Inst |-> "None"]
    /\ pend = [i \in Inst |-> NoPending]
    /\ mid = [i \in Inst |-> NoMid]
    /\ bridge = [i \in Inst |-> NoBridge]
    /\ tls = [i \in Inst |-> NoStream]
    /\ certOk = [i \in Inst |-> "ok"]
    /\ wbLeft = [i \in Inst |-> 0]
    /\ polls = [i \in Inst |-> 0]
    /\ last = [i \in Inst |-> NoLast]
    /\ hsResults = [i \in Inst |-> <<>>]
    /\ engFail = [i \in Inst |-> "none"]
    /\ writer = 1
    /\ msg = <<>>
    /\ sent = 0
    /\ wire = <<>>
    /\ rcvd = <<>>
    /\ held = <<>>

\* What a poll of StartedHandshakeFuture handed to its caller
StartedLast(cx, o) ==
    [NoLast EXCEPT !.op = "started", !.ctx = cx, !.poll = o.poll,
                   !.res = o.val, !.err = o.err, !.engErr = o.engErr,
                   !.hsCalls = o.hsCalls, !.io = o.io, !.entries = o.entries,
                   !.notReady = o.notReady, !.seen = o.seen,
                   !.context = o.context]

\* One poll of the StartedHandshakeFuture of instance i: self.0.take(),
\* then the initial call over a bridge carrying the poll's context
StartedPoll(i) ==
    /\ started[i] # "Absent"
    /\ polls[i] < MaxPolls
    /\ \E cx \in Ctx, s \in Scripts, c \in Verdicts :
          /\ bridge' = [bridge EXCEPT ![i] =
                [alive |-> StartedHandshakeFuturePoll(started[i] = "Some", cx, s, c).alive,
                 context |-> StartedHandshakeFuturePoll(started[i] = "Some", cx, s, c).context]]
          /\ last' = [last EXCEPT ![i] =
                StartedLast(cx, StartedHandshakeFuturePoll(started[i] = "Some", cx, s, c))]
    /\ started' = [started EXCEPT ![i] = "Taken"]
    /\ polls' = [polls EXCEPT ![i] = @ + 1]
    /\ UNCHANGED <<fut, pend, mid, tls, certOk, wbLeft, hsResults, engFail,
                   loopVars, certVars>>

NextStarted == \E i \in Inst : StartedPoll(i)

SpecStarted == InitStarted /\ [][NextStarted]_vars

\* C27: StartedHandshakeFuture never returns Pending.  Its first poll makes
\* the initial engine handshake call, once, and returns Ready: Done on
\* success, Mid on would-block, the engine's error on a hard failure.  Any
\* further poll panics with "polled after completion" and calls nothing.
C27_StartedAlwaysReady ==
    \A i \in Inst :
        last[i].op = "started" =>
            /\ last[i].poll # "Pending"
            /\ polls[i] = 1 =>
                    /\ last[i].poll = "Ready"
                    /\ last[i].hsCalls = 1 /\ Len(last[i].entries) = 1
                    /\ LastEntry(i).call = "initial"
                    /\ LastEntry(i).res = "Ok" => last[i].res = "Done"
                    /\ LastEntry(i).res = "WouldBlock" => last[i].res = "Mid"
                    /\ LastEntry(i).res = "Failure" =>
                            /\ last[i].res = "Err"
                            /\ last[i].err = last[i].engErr
                    /\ LastEntry(i).res \in {"Ok", "WouldBlock", "Failure"}
            /\ polls[i] > 1 =>
                    /\ last[i].poll = "Panic"
                    /\ last[i].err = "polled after completion"
                    /\ last[i].hsCalls = 0 /\ last[i].io = 0

\* One future answered Mid to its only poll over a transport that was not
\* ready; another was polled a second time and panicked
C27_Witness ==
    /\ polls[1] = 1 /\ last[1].op = "started"
    /\ last[1].poll = "Ready" /\ last[1].res = "Mid" /\ last[1].notReady
    /\ polls[2] = 2 /\ last[2].poll = "Panic"
    /\ last[2].err = "polled after completion"

\* C28: a call of PendingTlsStream::poll ends after at most two iterations
\* of its loop and at most one engine handshake call.  A slot holding
\* Midhandshake is retried once: the poll returns Pending in that iteration
\* if the engine reported would-block again, and otherwise returns the
\* stream or the error in the second.  Any other slot is returned in the
\* first iteration without an engine call.
C28_PendingPollBounded ==
    \A i \in Inst :
        last[i].op = "pending" =>
            /\ last[i].iters \in {1, 2}
            /\ last[i].hsCalls <= 1
            /\ last[i].hsCalls = Len(last[i].entries)
            /\ (last[i].hsCalls = 1 /\ LastEntry(i).res = "WouldBlock") =>
                    last[i].poll = "Pending" /\ last[i].iters = 1
            /\ (last[i].hsCalls = 1 /\ LastEntry(i).res # "WouldBlock") =>
                    last[i].poll = "Ready" /\ last[i].iters = 2
            /\ last[i].hsCalls = 0 =>
                    last[i].poll = "Ready" /\ last[i].iters = 1

\* A poll retried the stored continuation, the engine completed, and the
\* second iteration returned the stream
C28_Witness ==
    /\ hsResults[1] = <<"Pending", "Stream">>
    /\ last[1].op = "pending" /\ last[1].poll = "Ready"
    /\ last[1].iters = 2 /\ last[1].hsCalls = 1
    /\ LastEntry(1).call = "retry" /\ LastEntry(1).res = "Ok"

====
